---------------------------- MODULE Spec2Model ----------------------------
(***************************************************************************)
(* Model of the used-car pipeline of anjan-r1/capstone:                    *)
(*   live_search.fetch_used_cars_live  (one request, per-card extraction)  *)
(*   value_model.compute_value_scores  (normalise, weight, round, rank)    *)
(*   app.main                          (fetch, then score, or "no data")   *)
(*                                                                         *)
(* Conventions.                                                            *)
(*  - An optional value (Python None / pandas NaN) is a sequence of length *)
(*    0 or 1: Absent == <<>>, Some(v) == <<v>>.                            *)
(*  - A float that the code computes as a quotient is the exact rational   *)
(*    <<n, d>> in lowest terms with d > 0.                                 *)
(*  - value_score is held in tenths (1000 stands for 100.0), which is the  *)
(*    resolution np.round(., 1) leaves.                                    *)
(*  - A DataFrame is [columns |-> set of column names, rows |-> sequence   *)
(*    of records]; the default RangeIndex is the position in rows.         *)
(*  - A string the code inspects (an href, a card's text) is a sequence of *)
(*    tokens.                                                              *)
(*  - Float arithmetic is exact arithmetic: the error of a float64 sum is  *)
(*    far below the tenth that value_score keeps and can change a result   *)
(*    only where the exact value lies midway between two tenths.           *)
(*  - The fields coe_left_years and engine_cc of a listing are read by     *)
(*    nothing that follows the extraction; the rows do not carry them.     *)
(***************************************************************************)
EXTENDS Integers, Sequences, FiniteSets, TLC

\* ------------------------------------------------------------- bounds
MaxN == 3        \* records in a batch handed to compute_value_scores
MaxVal == 3      \* prices handed to compute_value_scores range over 0..MaxVal
MaxCards == 3    \* listing blocks in a fetched page
MaxCap == 3      \* the caller's max_results ranges over 0..MaxCap

\* ------------------------------------------------------------- optionals
Absent == <<>>

Some(v) == <<v>>

IsPresent(o) == Len(o) > 0

Val(o) == o[1]

Opt(S) == {Absent} \cup {Some(v) : v \in S}

\* ------------------------------------------------------------- arithmetic
Abs(x) == IF x < 0 THEN -x ELSE x

RECURSIVE GCD(_, _)
GCD(a, b) == IF b = 0 THEN a ELSE GCD(b, a % b)

\* the rational n/d (d > 0) in lowest terms
Frac(n, d) == LET g == GCD(Abs(n), d) IN <<n \div g, d \div g>>

Half == <<1, 2>>

SetMin(S) == CHOOSE x \in S : \A y \in S : x <= y

SetMax(S) == CHOOSE x \in S : \A y \in S : x >= y

\* np.round / rint: the integer nearest to n/d (d > 0, n >= 0), ties to even
RoundHalfEven(n, d) ==
    LET q == n \div d
        r == n % d
    IN  IF 2 * r < d THEN q
        ELSE IF 2 * r > d THEN q + 1
        ELSE IF q % 2 = 0 THEN q ELSE q + 1

\* ------------------------------------------------------------- value_model.py
current_year == 2025

\* the weights, in hundredths
W_PRICE == 35
W_DEPR == 30
W_MILEAGE == 20
W_AGE == 15

\* df.empty: some axis has length 0
IsEmpty(df) == Len(df.rows) = 0 \/ df.columns = {}

\* df["car_age"] = current_year - df["year"] if "year" in df else np.nan
car_age(df, i) ==
    IF "year" \in df.columns /\ IsPresent(df.rows[i].year)
    THEN Some(current_year - Val(df.rows[i].year))
    ELSE Absent

\* df with the car_age column added
WithAge(df) ==
    [i \in 1..Len(df.rows) |->
        [price_sgd |-> df.rows[i].price_sgd,
         depreciation_per_year |-> df.rows[i].depreciation_per_year,
         mileage_km |-> df.rows[i].mileage_km,
         car_age |-> car_age(df, i)]]

\* norm_col with the orientation inverted: (x - vmin) / (vmax - vmin)
NormColInverted(x, higher_is_better) ==
    LET vals == {Val(x[i]) : i \in {j \in 1..Len(x) : IsPresent(x[j])}}
    IN  IF vals = {} THEN [i \in 1..Len(x) |-> Absent]
        ELSE LET vmin == SetMin(vals)
                 vmax == SetMax(vals)
             IN  IF vmax = vmin
                 THEN [i \in 1..Len(x) |-> IF IsPresent(x[i]) THEN Some(Half) ELSE Absent]
                 ELSE [i \in 1..Len(x) |->
                        IF ~IsPresent(x[i]) THEN Absent
                        ELSE Some(Frac(Val(x[i]) - vmin, vmax - vmin))]

\* norm_col that fills the rows without a value with the neutral 0.5
NormColFilled(x, higher_is_better) ==
    LET vals == {Val(x[i]) : i \in {j \in 1..Len(x) : IsPresent(x[j])}}
    IN  IF vals = {} THEN [i \in 1..Len(x) |-> Absent]
        ELSE LET vmin == SetMin(vals)
                 vmax == SetMax(vals)
             IN  IF vmax = vmin
                 THEN [i \in 1..Len(x) |-> Some(Half)]
                 ELSE [i \in 1..Len(x) |->
                        IF ~IsPresent(x[i]) THEN Some(Half)
                        ELSE Some(Frac(vmax - Val(x[i]), vmax - vmin))]

\* norm_col: x is the column as a sequence of optionals
norm_col(x, higher_is_better) ==
    LET vals == {Val(x[i]) : i \in {j \in 1..Len(x) : IsPresent(x[j])}}
    IN  IF vals = {} THEN [i \in 1..Len(x) |-> Absent]
        ELSE LET vmin == SetMin(vals)
                 vmax == SetMax(vals)
             IN  IF vmax = vmin
                 THEN [i \in 1..Len(x) |-> IF IsPresent(x[i]) THEN Some(Half) ELSE Absent]
                 ELSE [i \in 1..Len(x) |->
                        IF ~IsPresent(x[i]) THEN Absent
                        ELSE IF higher_is_better
                             THEN Some(Frac(Val(x[i]) - vmin, vmax - vmin))
                             ELSE Some(Frac(vmax - Val(x[i]), vmax - vmin))]

\* safe_val that counts a NaN as 0
SafeValZero(x) == IF IsPresent(x) THEN Val(x) ELSE <<0, 1>>

\* safe_val: 0.5 for a NaN
safe_val(x) == IF IsPresent(x) THEN Val(x) ELSE Half

\* 0.35*p + 0.30*d + 0.20*m + 0.15*a, as the rational <<num, den>> of the
\* score in hundredths (the float sum times 100)
WeightedSum(p, d, m, a) ==
    <<W_PRICE * p[1] * d[2] * m[2] * a[2]
        + W_DEPR * d[1] * p[2] * m[2] * a[2]
        + W_MILEAGE * m[1] * p[2] * d[2] * a[2]
        + W_AGE * a[1] * p[2] * d[2] * m[2],
      p[2] * d[2] * m[2] * a[2]>>

\* one row's score from its four normalised values
RowScore(pn, dn, mn, an) ==
    WeightedSum(safe_val(pn), safe_val(dn), safe_val(mn), safe_val(an))

\* np.round(score * 100, 1), in tenths
RoundedScore(s) == RoundHalfEven(10 * s[1], s[2])

\* the frame after the value_score column is set, before sorting; `row` is
\* the index label the row has at that point (its input position)
Scored(df) ==
    LET t == WithAge(df)
        n == Len(t)
        pn == norm_col([i \in 1..n |-> t[i].price_sgd], FALSE)
        dn == norm_col([i \in 1..n |-> t[i].depreciation_per_year], FALSE)
        mn == norm_col([i \in 1..n |-> t[i].mileage_km], FALSE)
        an == norm_col([i \in 1..n |-> t[i].car_age], FALSE)
    IN  [i \in 1..n |->
            [row |-> i,
             src |-> df.rows[i],
             car_age |-> t[i].car_age,
             price_norm |-> pn[i],
             depr_norm |-> dn[i],
             mileage_norm |-> mn[i],
             age_norm |-> an[i],
             value_score |-> RoundedScore(RowScore(pn[i], dn[i], mn[i], an[i]))]]

Perms(n) == {p \in [1..n -> 1..n] : \A i, j \in 1..n : i # j => p[i] # p[j]}

\* sort_values(by="value_score", ascending=False): no kind is passed, so the
\* sort is pandas' default "quicksort", which is not a stable sort (only
\* "mergesort" and "stable" are). The result is in descending order of the
\* key; rows with equal keys come in any order. SortOrders(s) is the set of
\* orders the call can leave: p[i] is the row of s that ends at position i
SortOrders(s) ==
    {p \in Perms(Len(s)) :
        \A i \in 1..Len(s) - 1 : s[p[i]].value_score >= s[p[i + 1]].value_score}

DerivedCols ==
    {"car_age", "price_norm", "depr_norm", "mileage_norm", "age_norm",
     "value_score", "value_rank"}

\* the empty frame given every derived column
EmptyResultAllDerived(df) == [columns |-> df.columns \cup DerivedCols, rows |-> <<>>]

\* `if df.empty`: the two columns are set to [] and df is returned (the
\* caller's frame itself, which so gains the two columns)
EmptyResult(df) ==
    [columns |-> df.columns \cup {"value_score", "value_rank"}, rows |-> <<>>]

\* a dense rank: rows with equal scores share a rank
RankDense(s, p, i) ==
    1 + Cardinality({s[k].value_score : k \in 1..Len(s)}
                        \cap {v \in 0..1000 : v > s[p[i]].value_score})

\* df["value_rank"] = df.index + 1 after reset_index(drop=True): the rank of
\* the row at (1-based) position i of the sorted frame, which is s in order p
RankAt(s, p, i) == i

\* the frames compute_value_scores can return for df
compute_value_scores(df) ==
    IF IsEmpty(df)
    THEN {EmptyResult(df)}
    ELSE LET s == Scored(df)
         IN  {[columns |-> df.columns \cup DerivedCols,
               rows |-> [i \in 1..Len(s) |->
                            [row |-> s[p[i]].row,
                             src |-> s[p[i]].src,
                             car_age |-> s[p[i]].car_age,
                             price_norm |-> s[p[i]].price_norm,
                             depr_norm |-> s[p[i]].depr_norm,
                             mileage_norm |-> s[p[i]].mileage_norm,
                             age_norm |-> s[p[i]].age_norm,
                             value_score |-> s[p[i]].value_score,
                             value_rank |-> RankAt(s, p, i)]]] : p \in SortOrders(s)}

\* ------------------------------------------------------------- live_search.py
\* a token of page text: whitespace, a word, "Depreciation", a bare number,
\* "$v", "$v/yr", "v km"
Tok(k, v) == [k |-> k, v |-> v]

WS == Tok("ws", 0)

\* _clean: runs of whitespace collapsed to one, leading and trailing dropped
RECURSIVE Collapse(_)
Collapse(t) ==
    IF Len(t) = 0 THEN <<>>
    ELSE IF Head(t).k = "ws" /\ (Len(t) = 1 \/ t[2].k = "ws") THEN Collapse(Tail(t))
    ELSE <<Head(t)>> \o Collapse(Tail(t))

_clean(t) ==
    LET c == Collapse(t)
    IN  IF Len(c) > 0 /\ Head(c).k = "ws" THEN Tail(c) ELSE c

\* re.search: the first of the positions at which a pattern matches, or 0
FirstPos(hits) == IF hits = {} THEN 0 ELSE SetMin(hits)

IsUsd(tok) == tok.k \in {"usd", "usdyr"}

IsUsdYr(tok) == tok.k = "usdyr"

IsKm(tok) == tok.k = "km"

IsYear(tok) == tok.k = "num" /\ tok.v >= 1900 /\ tok.v <= 2099

\* r"\$\s*([\d,]+)"
ParsePrice(t) ==
    LET i == FirstPos({j \in 1..Len(t) : IsUsd(t[j])}) IN IF i = 0 THEN Absent ELSE Some(t[i].v)

\* r"([\d,]+)\s*km\b"
ParseMileage(t) ==
    LET i == FirstPos({j \in 1..Len(t) : IsKm(t[j])}) IN IF i = 0 THEN Absent ELSE Some(t[i].v)

\* r"Depreciation[^$]*\$\s*([\d,]+)/yr", else r"\$\s*([\d,]+)/yr"
ParseDepreciation(t) ==
    LET anchored == {j \in 1..Len(t) :
                        /\ t[j].k = "usdyr"
                        /\ \E i \in 1..(j - 1) :
                              /\ t[i].k = "dep"
                              /\ \A m \in (i + 1)..(j - 1) : ~IsUsd(t[m])}
        i == FirstPos({j \in 1..Len(t) : IsUsdYr(t[j])})
    IN  IF anchored # {} THEN Some(t[SetMin(anchored)].v)
        ELSE IF i = 0 THEN Absent ELSE Some(t[i].v)

\* r"\b(20\d{2}|19\d{2})\b"
ParseYear(t) ==
    LET i == FirstPos({j \in 1..Len(t) : IsYear(t[j])}) IN IF i = 0 THEN Absent ELSE Some(t[i].v)

\* an href is a sequence of the tokens "https:", "/", "host", "..", "info"
\* (the path segment used-cars/info) and "id"
BASE == <<"https:", "/", "/", "host">>

\* href.startswith("/")
StartsWithSlash(h) == Len(h) > 0 /\ h[1] = "/"

\* a[href*='/used-cars/info/']
MatchesInfo(h) ==
    \E i \in 1..(Len(h) - 2) : h[i] = "/" /\ h[i + 1] = "info" /\ h[i + 2] = "/"

\* card.select_one("a[href*='/used-cars/info/']"): the first matching anchor
SelectOne(links) ==
    LET hit == {i \in 1..Len(links) : MatchesInfo(links[i].href)}
    IN  IF hit = {} THEN Absent ELSE Some(links[SetMin(hit)])

\* listing_url of a found anchor
ListingUrl(href) ==
    IF StartsWithSlash(href) THEN Some(BASE \o href)
    ELSE IF Len(href) > 0 THEN Some(href) ELSE Absent

\* card.get_text(" "): the anchors' texts, then the rest of the card
RECURSIVE LinkText(_)
LinkText(links) ==
    IF Len(links) = 0 THEN <<>>
    ELSE Head(links).text \o <<WS>> \o LinkText(Tail(links))

GetText(card) == LinkText(card.links) \o card.body

\* one pass of the loop body: the row built from a card
ParseCard(card) ==
    LET raw_text == _clean(GetText(card))
        link_el == SelectOne(card.links)
    IN  [title |-> IF IsPresent(link_el) THEN Some(_clean(Val(link_el).text)) ELSE Absent,
         listing_url |-> IF IsPresent(link_el) THEN ListingUrl(Val(link_el).href) ELSE Absent,
         price_sgd |-> ParsePrice(raw_text),
         mileage_km |-> ParseMileage(raw_text),
         depreciation_per_year |-> ParseDepreciation(raw_text),
         year |-> ParseYear(raw_text),
         raw_text |-> raw_text]

ListingCols ==
    {"title", "listing_url", "price_sgd", "mileage_km", "depreciation_per_year",
     "year", "coe_left_years", "engine_cc", "raw_text"}

\* pd.DataFrame()
EmptyFrame == [columns |-> {}, rows |-> <<>>]

\* pd.DataFrame(rows), rows a non-empty list of dicts
FrameOf(rs) == [columns |-> ListingCols, rows |-> rs]

\* ------------------------------------------------------------- state
VARIABLES
    pc,           \* where the invocation stands
    max_results,  \* the cap handed to fetch_used_cars_live
    resp,         \* the outcome of requests.get, once made
    cards,        \* soup.select(...): the listing blocks of the page
    parsed,       \* how many cards the loop has taken
    rows,         \* the rows list of fetch_used_cars_live
    requests,     \* calls of requests.get so far
    scoreCalls,   \* calls of compute_value_scores so far
    df_raw,       \* the frame handed to compute_value_scores
    df_scored     \* what compute_value_scores returned, once it has

vars == <<pc, max_results, resp, cards, parsed, rows, requests, scoreCalls,
          df_raw, df_scored>>

\* ------------------------------------------------------------- inputs
\* the forms an anchor's href takes
HrefAbsolute == <<"https:", "/", "/", "host", "/", "info", "/", "id">>
HrefRooted == <<"/", "info", "/", "id">>
HrefRelative == <<"..", "/", "info", "/", "id">>
HrefProtocolRelative == <<"/", "/", "host", "/", "info", "/", "id">>
HrefEmpty == <<>>
HrefOther == <<"/", "id">>

Hrefs ==
    {HrefAbsolute, HrefRooted, HrefRelative, HrefProtocolRelative, HrefEmpty, HrefOther}

Anchor(h) == [href |-> h, text |-> <<WS, Tok("word", 0), WS, WS, Tok("word", 0)>>]

\* card texts: the two records of the end-to-end example, a text with only
\* a depreciation amount, and a card without text
TextA ==
    <<Tok("num", 2023), WS, Tok("usd", 50000), WS, Tok("km", 10000), WS,
      Tok("dep", 0), WS, Tok("usdyr", 8000)>>
TextB ==
    <<WS, Tok("num", 2015), WS, WS, Tok("usd", 80000), Tok("km", 60000),
      Tok("usdyr", 12000), WS>>
TextD == <<Tok("usdyr", 9000), WS, Tok("dep", 0), WS, Tok("usdyr", 11000)>>
TextNone == <<>>

Cards ==
    {[links |-> <<Anchor(h)>>, body |-> TextA] : h \in Hrefs}
    \cup {[links |-> <<>>, body |-> t] : t \in {TextA, TextB, TextD, TextNone}}
    \cup {[links |-> <<Anchor(HrefOther), Anchor(HrefRooted)>>, body |-> TextB]}

SeqsUpTo(S, n) == UNION {[1..k -> S] : k \in 0..n}

Pages == SeqsUpTo(Cards, MaxCards)

Statuses == {200, 403, 500}

\* the scored attributes of a record handed to compute_value_scores
\* directly: the price takes every value of 0..MaxVal, the other three
\* attributes the least and the greatest (norm_col treats the four columns
\* alike)
Vals == 0..MaxVal

EndVals == {0, MaxVal}

EndYears == {current_year - a : a \in EndVals}

Records ==
    [price_sgd : Opt(Vals), depreciation_per_year : Opt(EndVals),
     mileage_km : Opt(EndVals), year : Opt(EndYears)]

Rec(p, d, m, y) ==
    [price_sgd |-> p, depreciation_per_year |-> d, mileage_km |-> m, year |-> y]

\* reference records: the best and the worst value of every attribute, a
\* record without any, and a record with nothing but the worst price
AllMin == Rec(Some(0), Some(0), Some(0), Some(current_year))
AllMax == Rec(Some(MaxVal), Some(MaxVal), Some(MaxVal), Some(current_year - MaxVal))
AllAbsent == Rec(Absent, Absent, Absent, Absent)
PriceMaxOnly == Rec(Some(MaxVal), Absent, Absent, Absent)

References == {AllMin, AllMax, AllAbsent, PriceMaxOnly}

\* records whose attributes are absent, the least or the greatest value
CoarseRecords ==
    [price_sgd : Opt(EndVals), depreciation_per_year : Opt(EndVals),
     mileage_km : Opt(EndVals), year : Opt(EndYears)]

Insert(ctx, k, r) == SubSeq(ctx, 1, k) \o <<r>> \o SubSeq(ctx, k + 1, Len(ctx))

\* the two records of the end-to-end example
ExampleA == Rec(Some(50000), Some(8000), Some(10000), Some(2023))
ExampleB == Rec(Some(80000), Some(12000), Some(60000), Some(2015))

\* the frames made of rows rs: with the listing columns and, when no row
\* has a year, also without the year column
FramesOf(rs) ==
    {[columns |-> ListingCols, rows |-> rs]}
    \cup IF \A i \in 1..Len(rs) : rs[i].year = Absent
         THEN {[columns |-> ListingCols \ {"year"}, rows |-> rs]}
         ELSE {}

\* ------------------------------------------------------------- actions
\* requests.get raises and nothing catches it
RequestRaisesUncaught ==
    /\ pc = "request"
    /\ resp' = Some([exc |-> TRUE, status |-> 0, page |-> <<>>])
    /\ requests' = requests + 1
    /\ pc' = "raised"
    /\ UNCHANGED <<max_results, cards, parsed, rows, scoreCalls, df_raw, df_scored>>

\* requests.get raises: caught, an empty frame is returned
RequestRaises ==
    /\ pc = "request"
    /\ resp' = Some([exc |-> TRUE, status |-> 0, page |-> <<>>])
    /\ requests' = requests + 1
    /\ df_raw' = EmptyFrame
    /\ pc' = "fetched"
    /\ UNCHANGED <<max_results, cards, parsed, rows, scoreCalls, df_scored>>

\* a response arrives; a status other than 200 returns an empty frame, as
\* does a page in which soup.select finds no card
RequestAnswered ==
    /\ pc = "request"
    /\ \E st \in Statuses, page \in Pages :
          /\ resp' = Some([exc |-> FALSE, status |-> st, page |-> page])
          /\ requests' = requests + 1
          /\ IF st # 200
             THEN /\ df_raw' = EmptyFrame
                  /\ pc' = "fetched"
                  /\ cards' = cards
             ELSE IF Len(page) = 0
             THEN /\ df_raw' = EmptyFrame
                  /\ pc' = "fetched"
                  /\ cards' = page
             ELSE /\ df_raw' = df_raw
                  /\ pc' = "loop"
                  /\ cards' = page
    /\ UNCHANGED <<max_results, parsed, rows, scoreCalls, df_scored>>

\* the break taken one row late
CapReachedLate(n) == n > max_results

\* `if len(rows) >= max_results: break`
CapReached(n) == n >= max_results

\* one pass of `for card in cards`, with the break and the return that
\* follow the last pass
ExtractCard ==
    /\ pc = "loop"
    /\ parsed < Len(cards)
    /\ LET rs == Append(rows, ParseCard(cards[parsed + 1]))
       IN  /\ rows' = rs
           /\ parsed' = parsed + 1
           /\ IF CapReached(Len(rs)) \/ parsed + 1 = Len(cards)
              THEN /\ df_raw' = FrameOf(rs)
                   /\ pc' = "fetched"
              ELSE /\ df_raw' = df_raw
                   /\ pc' = "loop"
    /\ UNCHANGED <<max_results, resp, cards, requests, scoreCalls, df_scored>>

\* main without the check for an empty frame
MainBranchNoCheck ==
    /\ pc = "fetched"
    /\ pc' = "score"
    /\ UNCHANGED <<max_results, resp, cards, parsed, rows, requests, scoreCalls,
                   df_raw, df_scored>>

\* main: `if df_raw.empty: st.error(...); return`
MainBranch ==
    /\ pc = "fetched"
    /\ pc' = IF IsEmpty(df_raw) THEN "nodata" ELSE "score"
    /\ UNCHANGED <<max_results, resp, cards, parsed, rows, requests, scoreCalls,
                   df_raw, df_scored>>

\* df_scored = compute_value_scores(df_raw)
Score ==
    /\ pc = "score"
    /\ \E d \in compute_value_scores(df_raw) : df_scored' = Some(d)
    /\ scoreCalls' = scoreCalls + 1
    /\ pc' = "done"
    /\ UNCHANGED <<max_results, resp, cards, parsed, rows, requests, df_raw>>

\* ------------------------------------------------------------- specifications
\* one search of app.main, the cap being any value a caller may pass
Init ==
    /\ pc = "request"
    /\ max_results \in 0..MaxCap
    /\ resp = Absent
    /\ cards = <<>>
    /\ parsed = 0
    /\ rows = <<>>
    /\ requests = 0
    /\ scoreCalls = 0
    /\ df_raw = EmptyFrame
    /\ df_scored = Absent

Next == RequestRaises \/ RequestAnswered \/ ExtractCard \/ MainBranch \/ Score

Spec == Init /\ [][Next]_vars

\* compute_value_scores applied to any batch
InitScore ==
    /\ pc = "score"
    /\ max_results = 0
    /\ resp = Absent
    /\ cards = <<>>
    /\ parsed = 0
    /\ rows = <<>>
    /\ requests = 0
    /\ scoreCalls = 0
    /\ \/ \E ctx \in SeqsUpTo(References, MaxN - 1), k \in 0..(MaxN - 1), r \in Records :
             /\ k <= Len(ctx)
             /\ df_raw \in FramesOf(Insert(ctx, k, r))
       \/ \E r1, r2 \in CoarseRecords : df_raw \in FramesOf(<<r1, r2>>)
       \/ df_raw \in FramesOf(<<ExampleA, ExampleB>>) \cup FramesOf(<<ExampleB, ExampleA>>)
       \/ df_raw \in {EmptyFrame, [columns |-> ListingCols, rows |-> <<>>]}
    /\ df_scored = Absent

NextScore == Score

SpecScore == InitScore /\ [][NextScore]_vars

\* ------------------------------------------------------------- claims: scoring
\* compute_value_scores has returned for a batch with at least one record
ScoredBatch == pc = "done" /\ IsPresent(df_scored) /\ Len(df_raw.rows) > 0

\* compute_value_scores has returned for a batch without records
ScoredNothing == pc = "done" /\ IsPresent(df_scored) /\ Len(df_raw.rows) = 0

out == Val(df_scored)

N == Len(df_raw.rows)

\* the raw value a returned row holds for an attribute
RawOf(r, attr) ==
    CASE attr = "price_sgd" -> r.src.price_sgd
      [] attr = "depreciation_per_year" -> r.src.depreciation_per_year
      [] attr = "mileage_km" -> r.src.mileage_km
      [] attr = "car_age" -> r.car_age

\* the normalised score a returned row holds for an attribute
NormOf(r, attr) ==
    CASE attr = "price_sgd" -> r.price_norm
      [] attr = "depreciation_per_year" -> r.depr_norm
      [] attr = "mileage_km" -> r.mileage_norm
      [] attr = "car_age" -> r.age_norm

Attrs == {"price_sgd", "depreciation_per_year", "mileage_km", "car_age"}

\* the values of an attribute present in the returned batch
PresentVals(attr) ==
    {Val(RawOf(out.rows[i], attr)) :
        i \in {j \in 1..Len(out.rows) : IsPresent(RawOf(out.rows[j], attr))}}

InUnit(q) == q[2] > 0 /\ 0 <= q[1] /\ q[1] <= q[2]

\* C1: after scoring a non-empty batch of N records every record has a
\* value_score in [0, 100] (0..1000 tenths) and the value_rank values are
\* exactly 1..N, each once
C1_ScoreRangeRankPermutation ==
    ScoredBatch =>
        /\ Len(out.rows) = N
        /\ \A i \in 1..Len(out.rows) :
              out.rows[i].value_score >= 0 /\ out.rows[i].value_score <= 1000
        /\ {out.rows[i].value_rank : i \in 1..Len(out.rows)} = 1..N
        /\ \A i, j \in 1..Len(out.rows) :
              i # j => out.rows[i].value_rank # out.rows[j].value_rank

\* a batch of three records, two of which tie, has been scored
C1_Witness ==
    /\ ScoredBatch
    /\ N = 3
    /\ out.rows[1].value_score = out.rows[2].value_score
    /\ out.rows[2].value_score > out.rows[3].value_score
    /\ \E i \in 1..N : df_raw.rows[i].price_sgd = Absent

\* C2: the returned rows are the input rows in descending order of
\* value_score, rank 1 first, and rows with equal value_score keep the order
\* they had in the input
C2_DescendingStable ==
    ScoredBatch =>
        /\ Len(out.rows) = N
        /\ {out.rows[i].row : i \in 1..Len(out.rows)} = 1..N
        /\ \A i \in 1..Len(out.rows) :
              /\ out.rows[i].src = df_raw.rows[out.rows[i].row]
              /\ out.rows[i].value_rank = i
        /\ \A i, j \in 1..Len(out.rows) :
              i < j =>
                /\ out.rows[i].value_score >= out.rows[j].value_score
                /\ out.rows[i].value_score = out.rows[j].value_score
                      => out.rows[i].row < out.rows[j].row

\* C3: a present value x of an attribute is normalised to exactly 0.5 when
\* all present values of the attribute are equal, and otherwise to
\* (max - x) / (max - min), which lies in [0, 1], is 1 at the minimum and 0 at
\* the maximum
NormAsClaimed(S, x, nv) ==
    /\ IsPresent(nv)
    /\ InUnit(Val(nv))
    /\ LET lo == SetMin(S)
           hi == SetMax(S)
       IN  IF hi = lo
           THEN Val(nv)[1] * 2 = Val(nv)[2]
           ELSE /\ Val(nv)[1] * (hi - lo) = (hi - x) * Val(nv)[2]
                /\ x = lo => Val(nv)[1] = Val(nv)[2]
                /\ x = hi => Val(nv)[1] = 0

C3_Normalization ==
    ScoredBatch =>
        \A attr \in Attrs :
            LET S == PresentVals(attr)
            IN  \A i \in 1..Len(out.rows) :
                    IsPresent(RawOf(out.rows[i], attr)) =>
                        NormAsClaimed(S, Val(RawOf(out.rows[i], attr)),
                                      NormOf(out.rows[i], attr))

\* a batch in which the prices take three values, one strictly between the
\* other two, and all present mileages are equal
C3_Witness ==
    /\ ScoredBatch
    /\ Cardinality(PresentVals("price_sgd")) = 3
    /\ Cardinality(PresentVals("mileage_km")) = 1
    /\ \E i \in 1..Len(out.rows) :
          /\ IsPresent(out.rows[i].price_norm)
          /\ Val(out.rows[i].price_norm)[1] > 0
          /\ Val(out.rows[i].price_norm)[1] < Val(out.rows[i].price_norm)[2]
    /\ \E i \in 1..Len(out.rows) : out.rows[i].mileage_norm = Some(Half)

\* C4 as stated: when at least one record of the batch has an attribute,
\* every record of the batch has a normalised score for it, in [0, 1]
C4_AbsentOnlyIfBatchLacks ==
    ScoredBatch =>
        \A attr \in Attrs :
            PresentVals(attr) # {} =>
                \A i \in 1..Len(out.rows) :
                    /\ IsPresent(NormOf(out.rows[i], attr))
                    /\ InUnit(Val(NormOf(out.rows[i], attr)))

\* C4 amended: a record's normalised score for an attribute is absent
\* exactly when that record lacks the raw attribute, and a present one lies
\* in [0, 1]
C4_AbsentIffRecordLacks ==
    ScoredBatch =>
        \A attr \in Attrs : \A i \in 1..Len(out.rows) :
            /\ IsPresent(NormOf(out.rows[i], attr)) <=> IsPresent(RawOf(out.rows[i], attr))
            /\ IsPresent(NormOf(out.rows[i], attr)) => InUnit(Val(NormOf(out.rows[i], attr)))
            /\ IsPresent(out.rows[i].car_age)
                  <=> ("year" \in df_raw.columns /\ IsPresent(out.rows[i].src.year))

\* a batch in which one record has a price and another has none
C4_Witness ==
    /\ ScoredBatch
    /\ \E i, j \in 1..Len(out.rows) :
          /\ IsPresent(out.rows[i].src.price_sgd)
          /\ IsPresent(out.rows[i].price_norm)
          /\ out.rows[j].src.price_sgd = Absent
          /\ out.rows[j].price_norm = Absent

\* C5: value_score is 100 * (0.35*price_norm + 0.30*depr_norm +
\* 0.20*mileage_norm + 0.15*age_norm) rounded to one decimal, an absent
\* normalised value counting as 0.5; so a record without any scored
\* attribute gets 50.0, a record at the batch minimum of all four attributes
\* (none constant) gets 100.0, one at the maximum of all four gets 0.0, and
\* the example gives A = 100.0 with rank 1 and B = 0.0 with rank 2
OrHalf(nv) == IF IsPresent(nv) THEN Val(nv) ELSE <<1, 2>>

\* is tenths the one-decimal rounding of 35p + 30d + 20m + 15a
IsRoundedComposite(tenths, p, d, m, a) ==
    LET den == p[2] * d[2] * m[2] * a[2]
        num == 35 * p[1] * d[2] * m[2] * a[2] + 30 * d[1] * p[2] * m[2] * a[2]
               + 20 * m[1] * p[2] * d[2] * a[2] + 15 * a[1] * p[2] * d[2] * m[2]
    IN  2 * Abs(tenths * den - 10 * num) <= den

\* r holds the least value of each of the four attributes, none constant
AtMinOfAll(r) ==
    \A attr \in Attrs :
        /\ IsPresent(RawOf(r, attr))
        /\ LET S == PresentVals(attr)
           IN  SetMin(S) # SetMax(S) /\ Val(RawOf(r, attr)) = SetMin(S)

\* r holds the greatest value of each of the four attributes, none constant
AtMaxOfAll(r) ==
    \A attr \in Attrs :
        /\ IsPresent(RawOf(r, attr))
        /\ LET S == PresentVals(attr)
           IN  SetMin(S) # SetMax(S) /\ Val(RawOf(r, attr)) = SetMax(S)

C5_WeightedComposite ==
    ScoredBatch =>
        /\ W_PRICE + W_DEPR + W_MILEAGE + W_AGE = 100
        /\ \A i \in 1..Len(out.rows) :
              LET r == out.rows[i]
              IN  /\ IsRoundedComposite(r.value_score, OrHalf(r.price_norm),
                         OrHalf(r.depr_norm), OrHalf(r.mileage_norm), OrHalf(r.age_norm))
                  /\ (\A attr \in Attrs : RawOf(r, attr) = Absent) => r.value_score = 500
                  /\ AtMinOfAll(r) => r.value_score = 1000
                  /\ AtMaxOfAll(r) => r.value_score = 0
        /\ {df_raw.rows[i] : i \in 1..N} = {ExampleA, ExampleB} =>
              /\ out.rows[1].src = ExampleA
              /\ out.rows[1].value_score = 1000 /\ out.rows[1].value_rank = 1
              /\ out.rows[2].src = ExampleB
              /\ out.rows[2].value_score = 0 /\ out.rows[2].value_rank = 2

\* a batch of three with a record that has no scored attribute next to one
\* at the minimum and one at the maximum of all four, and a batch whose
\* composite needs rounding
C5_Witness ==
    /\ ScoredBatch
    /\ N = 3
    /\ \E i, j, k \in 1..N :
          /\ \A attr \in Attrs : RawOf(out.rows[i], attr) = Absent
          /\ out.rows[i].value_score = 500
          /\ AtMinOfAll(out.rows[j]) /\ out.rows[j].value_score = 1000
          /\ AtMaxOfAll(out.rows[k]) /\ out.rows[k].value_score = 0

\* C6 as stated: scoring a batch without records returns a batch without
\* records to which no column has been added
C6_EmptyAddsNoColumns ==
    ScoredNothing => out.rows = <<>> /\ out.columns = df_raw.columns

\* C6 amended: scoring a batch without records returns, without an error, a
\* batch without records that has the input's columns and the two empty
\* columns value_score and value_rank, and no car_age or normalised column
C6_EmptyAddsScoreAndRank ==
    ScoredNothing =>
        /\ out.rows = <<>>
        /\ out.columns = df_raw.columns \cup {"value_score", "value_rank"}
        /\ out.columns \cap {"car_age", "price_norm", "depr_norm", "mileage_norm",
                             "age_norm"} = {}

\* the frame pd.DataFrame() has been scored
C6_Witness == ScoredNothing /\ df_raw = EmptyFrame /\ scoreCalls = 1

\* ------------------------------------------------------------- claims: fetching
\* fetch_used_cars_live has returned to main
FetchReturned == pc \in {"fetched", "nodata", "score", "done"}

Least(a, b) == IF a <= b THEN a ELSE b

\* an absolute URL: a scheme, then //, then a host
IsAbsolute(u) == Len(u) >= 4 /\ u[1] = "https:" /\ u[2] = "/" /\ u[3] = "/" /\ u[4] = "host"

\* C7: fetch_used_cars_live never raises to its caller; when the request
\* raised, the status is not 200 or the page has no listing block it returns
\* a frame without records, and it returns records only after a response
\* with status 200 and at least one listing block
C7_FailureYieldsEmpty ==
    /\ pc # "raised"
    /\ FetchReturned =>
          /\ IsPresent(resp)
          /\ (Val(resp).exc \/ Val(resp).status # 200 \/ Len(Val(resp).page) = 0)
                => df_raw = EmptyFrame /\ Len(df_raw.rows) = 0
          /\ Len(df_raw.rows) > 0
                => ~Val(resp).exc /\ Val(resp).status = 200 /\ Len(Val(resp).page) >= 1

\* the request raised and the fetch has returned
C7_Witness ==
    /\ pc = "fetched"
    /\ IsPresent(resp)
    /\ Val(resp).exc
    /\ df_raw = EmptyFrame

\* C8: with a cap max_results >= 1 and a page of N listing blocks the fetch
\* returns min(N, max_results) records, record i made from block i with its
\* raw_text, and the loop never takes a block after the cap is reached
C8_CapAndOrder ==
    max_results >= 1 =>
        /\ parsed <= Least(Len(cards), max_results)
        /\ (FetchReturned /\ ~Val(resp).exc /\ Val(resp).status = 200) =>
              /\ Len(df_raw.rows) = Least(Len(Val(resp).page), max_results)
              /\ parsed = Len(df_raw.rows)
              /\ \A i \in 1..Len(df_raw.rows) :
                    df_raw.rows[i].raw_text = _clean(GetText(Val(resp).page[i]))

\* a page of three different blocks fetched with a cap of two
C8_Witness ==
    /\ pc = "fetched"
    /\ max_results = 2
    /\ Len(cards) = 3
    /\ Len(df_raw.rows) = 2
    /\ df_raw.rows[1].raw_text # df_raw.rows[2].raw_text
    /\ cards[3] # cards[1] /\ cards[3] # cards[2]

\* C9: listing_url is absent or an absolute URL; when the block has an
\* anchor matching the listing-detail path, an absolute target is returned
\* unchanged and any other target is resolved to an absolute URL
C9_ListingUrlAbsolute ==
    (FetchReturned /\ Len(df_raw.rows) > 0) =>
        \A i \in 1..Len(df_raw.rows) :
            LET u == df_raw.rows[i].listing_url
                a == SelectOne(cards[i].links)
            IN  /\ u = Absent \/ IsAbsolute(Val(u))
                /\ IsPresent(a) =>
                      IF IsAbsolute(Val(a).href)
                      THEN u = Some(Val(a).href)
                      ELSE IsPresent(u) /\ IsAbsolute(Val(u))

\* ------------------------------------------------------------- claims: main
StageRank(p) ==
    CASE p = "request" -> 0
      [] p = "loop" -> 1
      [] p = "fetched" -> 2
      [] p = "score" -> 3
      [] OTHER -> 4

C10_State ==
    /\ requests = (IF pc = "request" THEN 0 ELSE 1)
    /\ scoreCalls = (IF pc = "done" THEN 1 ELSE 0)
    /\ pc \in {"score", "done"} => Len(df_raw.rows) > 0 /\ df_raw.rows = rows
    /\ pc = "nodata" => Len(df_raw.rows) = 0 /\ df_scored = Absent

C10_Step ==
    /\ StageRank(pc') >= StageRank(pc)
    /\ requests' # requests => pc = "request"
    /\ scoreCalls' # scoreCalls => pc = "score" /\ Len(df_raw.rows) > 0

\* C10: a search runs fetch, extract, score in that order and never goes
\* back; it makes exactly one request, never a second one after a failure,
\* and calls compute_value_scores at most once, only on a non-empty
\* extracted batch: an empty batch ends in "no data" without scoring
C10_FetchExtractScoreOnce == []C10_State /\ [][C10_Step]_vars

\* a search that scored two extracted records
C10_Witness ==
    /\ pc = "done"
    /\ requests = 1
    /\ scoreCalls = 1
    /\ Len(rows) = 2
    /\ IsPresent(df_scored)
    /\ Len(Val(df_scored).rows) = 2
=============================================================================
